---- MODULE Spec2Model ----
(***************************************************************************)
(* Model of modules/date_collection.py: DateCollection, a mapping from     *)
(* every date of a span to a location assignment, and its subclass         *)
(* DateDistanceCollection, which adds the haversine distance from home.    *)
(*                                                                         *)
(* Representation.                                                         *)
(*  - A date is its proleptic Gregorian ordinal (date.toordinal()).        *)
(*  - A Python str is the sequence of its characters, so that str.split    *)
(*    is computed and not assumed.                                         *)
(*  - A JSON value of data/coordinates.json is a record with a kind        *)
(*    ("dict" or "list") and its items.                                    *)
(*  - Angles stay in degrees. The haversine term a is counted in units   *)
(*    of 1/One; the table's places are such that its exact value is a      *)
(*    whole number of units, and the float rounding of a is at most one    *)
(*    unit either way (variable ulp). Distances are counted in             *)
(*    pi/4 * 1/10000 mile.                                                 *)
(*  - status tells how the process stands: "running", ended by SystemExit  *)
(*    ("exit") or ended by an uncaught exception ("error").                *)
(***************************************************************************)
EXTENDS Integers, Sequences, FiniteSets, TLC

\* ------------------------------------------------------------------ bounds

\* Longest stay of a set_location call.
MaxNights == 2

\* Longest span of a DateCollection, in days after start_date.
MaxSpanDays == 2

\* First year of a DateDistanceCollection.
FirstYear == 2023

\* ------------------------------------------------------------------ dates

\* datetime: days before January 1st of year y (proleptic Gregorian).
DaysBeforeYear(y) ==
    365 * (y - 1) + ((y - 1) \div 4) - ((y - 1) \div 100) + ((y - 1) \div 400)

\* date(year, 1, 1)
YearStart(y) == DaysBeforeYear(y) + 1

\* date(year, 12, 31)
YearEnd(y) == DaysBeforeYear(y + 1)

\* first_morning(checkout_date, nights); the variant returns the day of
\* checkin instead of the day after it.
first_morning_checkin(checkout_date, nights) == checkout_date - nights
first_morning(checkout_date, nights) == checkout_date - (nights - 1)

\* DateCollection._inclusive_date_range: the list of dates from start_date
\* up to end_date, ascending; empty when end_date is before start_date.
InclusiveDateRange(start_date, end_date) ==
    IF end_date < start_date THEN << >>
    ELSE [i \in 1..(end_date - start_date + 1) |-> start_date + (i - 1)]

\* ------------------------------------------------------------------ strings

\* str.split(sep) on a sequence of characters, from position i on, with the
\* segment read so far in cur and the finished segments in acc.
RECURSIVE SplitFrom(_, _, _, _, _)
SplitFrom(s, sep, i, cur, acc) ==
    IF i > Len(s) THEN Append(acc, cur)
    ELSE IF s[i] = sep THEN SplitFrom(s, sep, i + 1, << >>, Append(acc, cur))
    ELSE SplitFrom(s, sep, i + 1, Append(cur, s[i]), acc)

\* location.split("/")
Split(s, sep) == SplitFrom(s, sep, 1, << >>, << >>)

\* ------------------------------------------------------------------ coordinates.json

Dict(items) == [kind |-> "dict", items |-> items]
List(lat, lon) == [kind |-> "list", items |-> <<lat, lon>>]

\* The coordinate reference table loaded by the constructor: place name
\* segments nested to [latitude, longitude] pairs, in degrees.
location_coordinates ==
    Dict([k \in {<<"U">>} |->
        Dict([c \in {<<"h">>, <<"q">>, <<"a">>} |->
            IF c = <<"h">> THEN List(8, 0)
            ELSE IF c = <<"q">> THEN List(8, 90)
            ELSE List(-8, 180)])])

\* Place identifiers handed to the constructor and to set_location.
PlaceH == <<"U", "/", "h">>
PlaceQ == <<"U", "/", "q">>
PlaceA == <<"U", "/", "a">>
PlaceAbsent == <<"U", "/", "x">>

Places == {PlaceH, PlaceA, PlaceAbsent}

\* operator.getitem(node, key) with a str key: a dict without the key
\* raises KeyError, a list raises TypeError.
GetItem(acc, key) ==
    IF acc.err # "none" THEN acc
    ELSE IF acc.value.kind = "dict"
    THEN IF key \in DOMAIN acc.value.items
         THEN [err |-> "none", value |-> acc.value.items[key]]
         ELSE [err |-> "KeyError", value |-> acc.value]
    ELSE [err |-> "TypeError", value |-> acc.value]

\* functools.reduce(operator.getitem, location_list, table)
RECURSIVE Reduce(_, _, _)
Reduce(location_list, i, acc) ==
    IF i > Len(location_list) THEN acc
    ELSE Reduce(location_list, i + 1, GetItem(acc, location_list[i]))

\* DateCollection._coordinates: the value the path leads to; KeyError is
\* caught and turned into SystemExit ("exit"), any other exception
\* propagates uncaught ("error").
Coordinates(location) ==
    LET location_list == Split(location, "/")
        r == Reduce(location_list, 1, [err |-> "none", value |-> location_coordinates])
    IN  IF r.err = "none" THEN [outcome |-> "ok", value |-> r.value]
        ELSE IF r.err = "KeyError" THEN [outcome |-> "exit", value |-> r.value]
        ELSE [outcome |-> "error", value |-> r.value]

\* ------------------------------------------------------------------ entries

\* Python's None, the value of an unset date.
None == [kind |-> "None"]

\* An optional argument: absent (default_location=None) or a place.
NoLocation == [given |-> FALSE]
Some(location) == [given |-> TRUE, location |-> location]

\* {'city': location, 'coordinates': coordinates}
Entry(location, coordinates) ==
    [kind |-> "dict", city |-> location, coordinates |-> coordinates]

\* {'city': location, 'coordinates': coordinates, 'distance': distance}
DistanceEntry(location, coordinates, distance) ==
    [kind |-> "dict", city |-> location, coordinates |-> coordinates,
     distance |-> distance]

\* {**loc, 'distance': 0.0}; the variant leaves the entry as the base
\* constructor made it.
WithoutDistance(loc) == loc
WithZeroDistance(loc) == DistanceEntry(loc.city, loc.coordinates, 0)

\* d[k] = v on a dict: the key is created when it is missing.
DictSet(d, k, v) ==
    IF k \in DOMAIN d THEN [d EXCEPT ![k] = v]
    ELSE [x \in (DOMAIN d) \cup {k} |-> IF x = k THEN v ELSE d[x]]

\* The set of the elements of a list.
Elements(seq) == {seq[i] : i \in 1..Len(seq)}

\* ------------------------------------------------------------------ DateCollection

\* DateCollection.__init__: the mapping and whether construction returned
\* ("running"), left by SystemExit ("exit") or by an uncaught exception
\* ("error"); no object exists in the last two cases.
DateCollectionInit(start, end, default) ==
    LET c == Coordinates(default.location)
        keys == Elements(InclusiveDateRange(start, end))
    IN  IF ~default.given
        THEN [status |-> "running", locations |-> [d \in keys |-> None]]
        ELSE IF c.outcome # "ok"
        THEN [status |-> c.outcome, locations |-> << >>]
        ELSE [status |-> "running",
              locations |-> [d \in keys |-> Entry(default.location, c.value)]]

\* `day in self.locations.keys()`; the variant drops the test.
InKeysAlways(day, locs) == TRUE
InKeys(day, locs) == day \in DOMAIN locs

\* self.locations[day] = {'city': ..., 'coordinates': ...}; the variant
\* fills unset dates only.
AssignEntryIfUnset(locs, day, location, coordinates) ==
    IF day \in DOMAIN locs /\ locs[day] # None THEN locs
    ELSE DictSet(locs, day, Entry(location, coordinates))
AssignEntry(locs, day, location, coordinates) ==
    DictSet(locs, day, Entry(location, coordinates))

\* The loop of DateCollection.set_location over dates[i..]: the lookup of
\* the coordinates is evaluated for every day that is a key, before the
\* assignment; a failed lookup leaves the loop and the process.
RECURSIVE SetLocationLoop(_, _, _, _)
SetLocationLoop(locs, dates, i, location) ==
    IF i > Len(dates) THEN [status |-> "running", locations |-> locs]
    ELSE IF InKeys(dates[i], locs)
    THEN LET c == Coordinates(location)
         IN  IF c.outcome # "ok" THEN [status |-> c.outcome, locations |-> locs]
             ELSE SetLocationLoop(AssignEntry(locs, dates[i], location, c.value),
                                  dates, i + 1, location)
    ELSE SetLocationLoop(locs, dates, i + 1, location)

\* The dates of a stay, as both set_location methods derive them.
StayDates(checkout_date, nights) ==
    InclusiveDateRange(first_morning(checkout_date, nights), checkout_date)

\* DateCollection.set_location
SetLocation(locs, checkout_date, nights, location) ==
    SetLocationLoop(locs, StayDates(checkout_date, nights), 1, location)

\* ------------------------------------------------------------------ DateDistanceCollection

\* EARTH_MEAN_RADIUS, in 1/10000 mile.
EARTH_MEAN_RADIUS == 39587613

\* The float 1.0 of the haversine term a, in units of the last place kept.
One == 1024

\* math.sin(8 * DEG_TO_RAD) ** 2 = 0.01937, in units of 1/One.
SinSquared8 == 20

\* math.sin(delta * DEG_TO_RAD / 2) ** 2, in units of 1/One, for the
\* differences of the table's coordinates: multiples of 90 degrees, and 16
\* degrees either way.
SinSquaredHalf(delta) ==
    LET m == delta % 360
    IN  IF m = 0 THEN 0
        ELSE IF m = 180 THEN One
        ELSE IF m = 16 \/ m = 344 THEN SinSquared8
        ELSE One \div 2

\* math.cos(phi_1) * math.cos(phi_2), in units of 1/One, for two latitudes
\* of the same size, as all of the table are: cos^2 = 1 - sin^2.
CosProduct(phi_1, phi_2) == One - SinSquaredHalf(2 * phi_1)

\* The haversine term a of _home_distance as the float arithmetic yields it:
\* the exact value when both differences are 0.0 (sin(0.0) is 0.0 and the
\* products and the sum are exact), and otherwise the exact value rounded,
\* which is off by rounding units of the last place and never negative.
HaversineA(home, loc, rounding) ==
    LET phi_1 == home[1]
        phi_2 == loc[1]
        delta_phi == loc[1] - home[1]
        delta_lambda == loc[2] - home[2]
        exact == SinSquaredHalf(delta_phi)
                 + (CosProduct(phi_1, phi_2) * SinSquaredHalf(delta_lambda)) \div One
    IN  IF delta_phi = 0 /\ delta_lambda = 0 THEN exact
        ELSE IF exact + rounding < 0 THEN 0
        ELSE exact + rounding

\* math.atan2(math.sqrt(a), math.sqrt(1 - a)), in units of pi/4, to the
\* nearest unit: 0 at a = 0, pi/4 at a = 1/2, pi/2 at a = 1.
Atan2Sqrt(a) ==
    IF 4 * a < One THEN 0 ELSE IF 4 * a <= 3 * One THEN 1 ELSE 2

\* DateDistanceCollection._home_distance, in units of pi/4 * 1/10000 mile.
\* The lookup may leave by SystemExit; indexing a dict of the table with 0
\* raises KeyError and math.sqrt of a negative 1 - a raises ValueError, both
\* uncaught ("error").
HomeDistance(home_coordinates, location, rounding) ==
    LET c == Coordinates(location)
    IN  IF c.outcome # "ok" THEN [outcome |-> c.outcome, value |-> 0]
        ELSE IF home_coordinates.kind # "list" \/ c.value.kind # "list"
        THEN [outcome |-> "error", value |-> 0]
        ELSE LET a == HaversineA(home_coordinates.items, c.value.items, rounding)
             IN  IF One - a < 0 THEN [outcome |-> "error", value |-> 0]
                 ELSE [outcome |-> "ok",
                       value |-> 2 * EARTH_MEAN_RADIUS * Atan2Sqrt(a)]

\* DateDistanceCollection.__init__: the base constructor with the home
\* location as default, the home coordinates, and distance 0.0 on every date.
DateDistanceCollectionInit(start_year, end_year, home_location) ==
    LET base == DateCollectionInit(YearStart(start_year), YearEnd(end_year),
                                   Some(home_location))
    IN  IF base.status # "running"
        THEN [status |-> base.status, locations |-> << >>,
              home_coordinates |-> None]
        ELSE [status |-> "running",
              locations |-> [day \in DOMAIN base.locations |->
                                WithZeroDistance(base.locations[day])],
              home_coordinates |-> Coordinates(home_location).value]

\* self.locations[day] = {'city': ..., 'coordinates': ..., 'distance': ...};
\* one variant adds the distance to the one the date holds, the other
\* updates the old entry and keeps its coordinates.
AssignDistanceEntryAdding(locs, day, location, coordinates, distance) ==
    DictSet(locs, day,
            DistanceEntry(location, coordinates, locs[day].distance + distance))
AssignDistanceEntryMerging(locs, day, location, coordinates, distance) ==
    DictSet(locs, day,
            DistanceEntry(location, locs[day].coordinates, distance))
AssignDistanceEntry(locs, day, location, coordinates, distance) ==
    DictSet(locs, day, DistanceEntry(location, coordinates, distance))

\* The loop of DateDistanceCollection.set_location over dates[i..].
RECURSIVE DistanceLoop(_, _, _, _, _)
DistanceLoop(locs, dates, i, location, distance) ==
    IF i > Len(dates) THEN [status |-> "running", locations |-> locs]
    ELSE IF InKeys(dates[i], locs)
    THEN LET c == Coordinates(location)
         IN  IF c.outcome # "ok" THEN [status |-> c.outcome, locations |-> locs]
             ELSE DistanceLoop(
                      AssignDistanceEntry(locs, dates[i], location, c.value, distance),
                      dates, i + 1, location, distance)
    ELSE DistanceLoop(locs, dates, i + 1, location, distance)

\* DateDistanceCollection.set_location: the distance is computed once,
\* before the loop.
DistanceSetLocation(locs, home_coordinates, rounding, checkout_date, nights, location) ==
    LET distance == HomeDistance(home_coordinates, location, rounding)
    IN  IF distance.outcome # "ok"
        THEN [status |-> distance.outcome, locations |-> locs]
        ELSE DistanceLoop(locs, StayDates(checkout_date, nights), 1, location,
                          distance.value)

\* ------------------------------------------------------------------ state

VARIABLES
    cls,               \* the class of the object: DateCollection or its subclass
    start_date,        \* first date of the span the constructor was given
    end_date,          \* last date of the span
    default_location,  \* the constructor's default_location or home_location
    locations,         \* self.locations
    home_coordinates,  \* self.home_coordinates (None on a DateCollection)
    status,            \* "running", or how the process ended: "exit", "error"
    ulp,               \* the rounding of the haversine term by the float build
    lastCall,          \* the call made last, with the dates it derived
    lastWriter,        \* per date, the location of the last stay covering it
    peer               \* a DateCollection over the same span (paired runs only)

vars == <<cls, start_date, end_date, default_location, locations,
          home_coordinates, status, ulp, lastCall, lastWriter, peer>>

\* March 8th of the year after FirstYear.
BaseStart == YearStart(FirstYear + 1) + 67

\* The default locations and home locations the constructors are given.
DefaultLocations == {NoLocation, Some(PlaceH), Some(PlaceAbsent)}
HomeLocations == {PlaceH, PlaceQ, PlaceAbsent}

\* The roundings of the haversine term a float build can produce: down,
\* exact or up by one unit of the last place. Which one it is depends on
\* the coordinates and on the platform's sin and cos; it is the same for
\* every call of one run. (CPython on x86-64 yields 1.0000000000000002 for
\* home [8, 0] and place [-8, 180], and 1.0 for [0, 0] and [0, 180].)
Roundings == {-1, 0, 1}

\* The checkout dates of the stays: at the start of the span (a stay of two
\* nights begins before it), inside it, and the day after its end (a stay
\* of one night is wholly outside).
CheckoutDates == {start_date, start_date + 1, end_date + 1}

NoPeer == [status |-> "none", locations |-> << >>]

Constructed(op) ==
    [op |-> op, checkout_date |-> 0, nights |-> 0, location |-> << >>,
     dates |-> << >>, repeat |-> FALSE, overlap |-> FALSE]

\* DateCollection(start_date, end_date, default_location)
InitDateCollection ==
    /\ cls = "DateCollection"
    /\ start_date = BaseStart
    /\ end_date \in {start_date, start_date + MaxSpanDays}
    /\ default_location \in DefaultLocations
    /\ \E r \in {DateCollectionInit(start_date, end_date, default_location)} :
          locations = r.locations /\ status = r.status
    /\ home_coordinates = None
    /\ ulp = 0
    /\ lastCall = Constructed("__init__")
    /\ lastWriter = << >>

\* DateDistanceCollection(start_year, end_year, home_location)
InitDateDistanceCollection ==
    /\ cls = "DateDistanceCollection"
    /\ \E home_location \in HomeLocations :
       \E r \in {DateDistanceCollectionInit(FirstYear, FirstYear, home_location)} :
          /\ start_date = YearStart(FirstYear)
          /\ end_date = YearEnd(FirstYear)
          /\ default_location = Some(home_location)
          /\ locations = r.locations
          /\ status = r.status
          /\ home_coordinates = r.home_coordinates
    /\ ulp \in Roundings
    /\ lastCall = Constructed("__init__")
    /\ lastWriter = << >>

Init ==
    /\ InitDateCollection \/ InitDateDistanceCollection
    /\ peer = NoPeer

\* The record of a set_location call: its arguments, the dates it derived,
\* whether it repeats the call before it, and whether it covers a date that
\* an earlier stay at another place covered.
Call(checkout_date, nights, location) ==
    [op |-> "set_location", checkout_date |-> checkout_date, nights |-> nights,
     location |-> location, dates |-> StayDates(checkout_date, nights),
     repeat |-> /\ lastCall.op = "set_location"
                /\ lastCall.checkout_date = checkout_date
                /\ lastCall.nights = nights
                /\ lastCall.location = location,
     overlap |-> \E d \in DOMAIN lastWriter :
                    /\ d >= checkout_date - (nights - 1)
                    /\ d <= checkout_date
                    /\ lastWriter[d] # location]

\* The stay of a call that returned is the last one on each date of the
\* span it covers (lastWriter has no entry for a date no stay has covered).
Stamp(checkout_date, nights, location, returned) ==
    LET covered == {d \in (checkout_date - (nights - 1))..checkout_date :
                       d >= start_date /\ d <= end_date}
    IN  IF ~returned THEN lastWriter
        ELSE [d \in (DOMAIN lastWriter) \cup covered |->
                IF d \in covered THEN location ELSE lastWriter[d]]

\* obj.set_location(checkout_date, nights, location) on a DateCollection
BaseSetLocation(checkout_date, nights, location) ==
    /\ cls = "DateCollection"
    /\ status = "running"
    /\ \E r \in {SetLocation(locations, checkout_date, nights, location)} :
          /\ locations' = r.locations
          /\ status' = r.status
          /\ lastWriter' = Stamp(checkout_date, nights, location, r.status = "running")
    /\ lastCall' = Call(checkout_date, nights, location)
    /\ UNCHANGED <<cls, start_date, end_date, default_location,
                   home_coordinates, ulp, peer>>

\* The effect of set_location on a DateDistanceCollection.
DistanceStep(checkout_date, nights, location) ==
    /\ cls = "DateDistanceCollection"
    /\ status = "running"
    /\ \E r \in {DistanceSetLocation(locations, home_coordinates, ulp,
                                     checkout_date, nights, location)} :
          /\ locations' = r.locations
          /\ status' = r.status
          /\ lastWriter' = Stamp(checkout_date, nights, location, r.status = "running")
    /\ lastCall' = Call(checkout_date, nights, location)
    /\ UNCHANGED <<cls, start_date, end_date, default_location,
                   home_coordinates, ulp>>

\* obj.set_location(checkout_date, nights, location) on a DateDistanceCollection
DistSetLocation(checkout_date, nights, location) ==
    /\ DistanceStep(checkout_date, nights, location)
    /\ UNCHANGED peer

Next ==
    \/ \E checkout_date \in CheckoutDates, nights \in 1..MaxNights, location \in Places :
          BaseSetLocation(checkout_date, nights, location)
    \/ \E checkout_date \in CheckoutDates, nights \in 1..MaxNights, location \in Places :
          DistSetLocation(checkout_date, nights, location)

Spec == Init /\ [][Next]_vars

\* ------------------------------------------------------------------ paired runs

\* A DateDistanceCollection and a DateCollection built over the same span
\* with the same default location; construction has the same outcome in both.
InitPair ==
    /\ InitDateDistanceCollection
    /\ \E r \in {DateCollectionInit(start_date, end_date, default_location)} :
          peer = [status |-> r.status, locations |-> r.locations]

\* The same set_location call on both objects.
PairSetLocation(checkout_date, nights, location) ==
    /\ peer.status = "running"
    /\ DistanceStep(checkout_date, nights, location)
    /\ \E r \in {SetLocation(peer.locations, checkout_date, nights, location)} :
          peer' = [status |-> r.status, locations |-> r.locations]

NextPair ==
    \E checkout_date \in CheckoutDates, nights \in 1..MaxNights, location \in Places :
        PairSetLocation(checkout_date, nights, location)

SpecPair == InitPair /\ [][NextPair]_vars

\* ------------------------------------------------------------------ properties

IsCall == lastCall.op = "set_location"

\* The constructor returned: there is an object.
Built == IsCall \/ status = "running"

\* The place resolves to a [latitude, longitude] pair.
Resolvable(location) ==
    /\ Coordinates(location).outcome = "ok"
    /\ Coordinates(location).value.kind = "list"

\* A segment of the place is missing from the table.
Absent(location) == Coordinates(location).outcome = "exit"

\* The dates of the last call's stay, as a set, by the definition of a stay.
StayRange ==
    (lastCall.checkout_date - (lastCall.nights - 1))..lastCall.checkout_date

InSpan(d) == d >= start_date /\ d <= end_date

\* C1: once constructed, and after any sequence of set_location calls, the
\* keys of the mapping are exactly the dates from start_date to end_date.
C1_KeysAreTheSpan == Built => DOMAIN locations = start_date..end_date

\* A stay that begins before the span has been written on its dates in the span.
C1_Witness ==
    /\ IsCall /\ status = "running" /\ Resolvable(lastCall.location)
    /\ \E d \in StayRange : ~InSpan(d)
    /\ \E d \in StayRange : InSpan(d) /\ locations[d].city = lastCall.location

\* C2: a set_location call with a place absent from the table ends the
\* process and leaves the mapping as it was, whatever the stay's dates.
C2_AbsentPlaceTerminates ==
    [][(lastCall'.op = "set_location" /\ Absent(lastCall'.location))
         => (status' = "exit" /\ locations' = locations)]_vars

\* C3: a set_location call with a resolvable place raises no error,
\* overwrites the entries of the stay's dates that are keys, keeps every
\* other entry and adds no key.
C3_OverwritesExactlyTheStay ==
    [][(lastCall'.op = "set_location" /\ Resolvable(lastCall'.location))
         => /\ status' = "running"
            /\ DOMAIN locations' = DOMAIN locations
            /\ \A d \in DOMAIN locations :
                 IF /\ d >= lastCall'.checkout_date - (lastCall'.nights - 1)
                    /\ d <= lastCall'.checkout_date
                 THEN /\ locations'[d].city = lastCall'.location
                      /\ locations'[d].coordinates
                           = Coordinates(lastCall'.location).value
                 ELSE locations'[d] = locations[d]]_vars

\* C4: the stay's dates are the nights consecutive dates, ascending, from
\* checkout_date - (nights - 1) to checkout_date; one night is the checkout
\* date alone.
C4_StayDateRange ==
    IsCall =>
        /\ Len(lastCall.dates) = lastCall.nights
        /\ \A i \in 1..Len(lastCall.dates) :
             lastCall.dates[i] = lastCall.checkout_date - (lastCall.nights - 1) + (i - 1)
        /\ lastCall.dates[Len(lastCall.dates)] = lastCall.checkout_date
        /\ (lastCall.nights = 1 => lastCall.dates = <<lastCall.checkout_date>>)

\* A stay of several nights has been derived.
C4_Witness == IsCall /\ lastCall.nights > 1 /\ Len(lastCall.dates) > 1

\* C5: a set_location call with the arguments of the call before it returns
\* as that one did and leaves the mapping as that one left it.
C5_Idempotent ==
    [][lastCall'.repeat => (status' = "running" /\ locations' = locations)]_vars

\* The same stay at a place other than the default has been set twice.
C5_Witness ==
    /\ IsCall /\ lastCall.repeat /\ status = "running"
    /\ \E d \in StayRange :
         /\ InSpan(d)
         /\ locations[d].city = lastCall.location
         /\ Some(lastCall.location) # default_location

\* C6: right after construction every date is unset when no default is
\* given; holds the default place and its coordinates when a resolvable
\* default is given; and in a DateDistanceCollection holds the home place,
\* its coordinates and distance 0.0.
C6_Construction ==
    (lastCall.op = "__init__"
       /\ (default_location.given => Resolvable(default_location.location)))
    => /\ status = "running"
       /\ DOMAIN locations = start_date..end_date
       /\ \A d \in DOMAIN locations :
            IF ~default_location.given THEN locations[d] = [kind |-> "None"]
            ELSE IF cls = "DateCollection"
            THEN locations[d]
                   = [kind |-> "dict", city |-> default_location.location,
                      coordinates |-> Coordinates(default_location.location).value]
            ELSE locations[d]
                   = [kind |-> "dict", city |-> default_location.location,
                      coordinates |-> Coordinates(default_location.location).value,
                      distance |-> 0]

\* A DateDistanceCollection has been constructed.
C6_Witness ==
    /\ lastCall.op = "__init__" /\ status = "running"
    /\ cls = "DateDistanceCollection"
    /\ \E d \in DOMAIN locations : locations[d].distance = 0

\* C7: _home_distance returns a value for every resolvable place, the value
\* is not negative, and it is 0.0 for the home location, as set_location
\* stores it.
C7_HomeDistance ==
    (cls = "DateDistanceCollection" /\ IsCall /\ Resolvable(lastCall.location))
    => /\ status = "running"
       /\ \A d \in StayRange :
            InSpan(d) =>
              /\ locations[d].distance >= 0
              /\ (Some(lastCall.location) = default_location
                    => locations[d].distance = 0)

C9_SameAsBase ==
    /\ (status = "running") = (peer.status = "running")
    /\ DOMAIN locations = DOMAIN peer.locations
    /\ \A d \in DOMAIN locations :
         /\ locations[d].city = peer.locations[d].city
         /\ locations[d].coordinates = peer.locations[d].coordinates

\* C10: every date holds the assignment of the last stay that covers it,
\* and the value the constructor gave it when no stay covers it.
C10_LastWriterWins ==
    Built =>
      \A d \in DOMAIN locations :
        IF d \in DOMAIN lastWriter
        THEN IF cls = "DateCollection"
             THEN locations[d]
                    = [kind |-> "dict", city |-> lastWriter[d],
                       coordinates |-> Coordinates(lastWriter[d]).value]
             ELSE locations[d]
                    = [kind |-> "dict", city |-> lastWriter[d],
                       coordinates |-> Coordinates(lastWriter[d]).value,
                       distance |-> HomeDistance(home_coordinates, lastWriter[d],
                                                 ulp).value]
        ELSE IF ~default_location.given THEN locations[d] = [kind |-> "None"]
        ELSE IF cls = "DateCollection"
        THEN locations[d]
               = [kind |-> "dict", city |-> default_location.location,
                  coordinates |-> Coordinates(default_location.location).value]
        ELSE locations[d]
               = [kind |-> "dict", city |-> default_location.location,
                  coordinates |-> Coordinates(default_location.location).value,
                  distance |-> 0]

\* A stay has been set over a date that an earlier stay at another place covered.
C10_Witness == IsCall /\ status = "running" /\ lastCall.overlap

====
